---- MODULE Spec2Model ----
(***************************************************************************)
(* 2drender: the idle-time Scheduler (both variants found in the          *)
(* repository) driven by the render() / config() / findByPosition()       *)
(* operations of the Grid, Marker, Text and Line layers.                  *)
(*                                                                         *)
(* Objects are modelled by identity: an item is a number, a batch (one    *)
(* execute call, its callback closure, its result array and its promise)  *)
(* is the ordinal of the execute call.  A value fn(item) is represented   *)
(* by the item it was computed from.                                      *)
(***************************************************************************)
EXTENDS Integers, Sequences, FiniteSets, TLC

\* ---------------------------------------------------------------- bounds
MaxBatches == 2      \* render() calls in one behaviour
MaxItems == 2        \* length of a non-empty item list handed to config()
MaxId == 4           \* largest idle-callback id after which a loop may still yield
MaxConfigs == 2      \* config() calls after construction

Undefined == 0       \* `void 0`; requestIdleCallback ids are positive

Variants == {"async", "timeout"}
Layers == {"Grid", "GridOld", "Marker", "MarkerOld", "Text", "Line", "LineCtx"}
\* The item objects the caller owns: 1 and 3 are well formed, 2 lacks its
\* placement field; 1 has style signature "a", 2 and 3 have "b".
Items == {1, 2, 3}
Batches == 1..MaxBatches

\* Item schema.  An item that lacks its required placement field (origin,
\* position, path) makes the draw routine raise a TypeError.
ItemValid(i) == i # 2
\* Style signature of an item (Marker: its icon source; Grid: its cache key).
ItemStyle(i) == IF i = 1 THEN "a" ELSE "b"
Styles == {"a", "b"}

VARIABLES
  variant,        \* which Scheduler class the layer imports
  layer,          \* which layer class owns the scheduler
  data,           \* layer.data: the item list
  ctx,            \* layer.ctx is a canvas context (FALSE: undefined)
  dpr,            \* layer.dpr (Undefined until a config() call passes validation)
  baked,          \* per cache key: the dpr its cached image was produced at (0: none)
  props,          \* the latest config() call had canvas, height and width: "complete" | "incomplete"
  nconf,          \* config() calls so far
  renderProps,    \* items carrying item.renderProps
  cache,          \* layer.cache: keys present (Marker: icon sources)
  ops,            \* Marker.render activations suspended in `await loadImage`
  nextOp,
  id,             \* scheduler.id
  array,          \* scheduler.array
  shared,         \* scheduler.array is the list object execute was handed, not a copy
  given,          \* per execute call: the present contents of the list object it was handed
  currentIndex,   \* scheduler.currentIndex (async variant)
  callback,       \* scheduler.callback: the batch whose closure it is
  result,         \* scheduler.result: the batch whose result array it is
  promise,        \* scheduler.resolve / scheduler.reject: the batch whose promise they settle
  resultArr,      \* contents of each batch's result array
  settle,         \* state of each batch's promise
  value,          \* what a resolved promise was resolved with
  regs,           \* window: pending idle-callback registrations
  nextId,         \* window: next idle-callback id
  timers,         \* window: pending setTimeout callbacks (timeout variant)
  loops,          \* requestIdleCallback activations suspended in `await this.callback(...)`
  nb,             \* execute calls so far
  input,          \* the item sequence each execute call was given
  handed,         \* batches whose promise render() returned to its caller
  quiet,          \* no timer, idle callback or load event has run since the latest execute
  inSuccession,   \* batches whose execute call found quiet true after an earlier call
  calls,          \* per callback closure: the items it was invoked on, in order
  draws,          \* per callback closure: the items drawn on the surface, in order
  failed,         \* batches whose callback raised into the scheduler
  produced,       \* per style signature: runs of renderOffscreen / loadImage so far
  found,          \* last findByPosition result
  findStatus,     \* "idle" | "returned" | "TypeError"
  items,          \* the item objects of layer.data with their geometry fields
  lineWidth,      \* ctx.lineWidth
  painted,        \* positions in layer.data painted by the latest render pass, in order
  query,          \* the point of the last findByPosition call
  changed,        \* positions whose item the caller changed since the latest pass
  assigned        \* the caller has assigned a field of an item after a pass

lvars == <<variant, layer, data, ctx, props, dpr, nconf, handed, quiet, inSuccession, input, nb, timers,
           found, findStatus>>
svars == <<renderProps, cache, ops, nextOp, id, array, currentIndex, callback, result,
           promise, resultArr, settle, value, regs, nextId, loops, calls, draws, failed,
           produced, baked, shared, given>>
gvars == <<items, lineWidth, painted, query, changed, assigned>>
vars == <<lvars, svars, gvars>>

\* The part of the state the scheduler loop and the callbacks work on.
St ==
  [renderProps |-> renderProps, cache |-> cache, ops |-> ops, nextOp |-> nextOp,
   id |-> id, array |-> array, currentIndex |-> currentIndex, callback |-> callback,
   result |-> result, promise |-> promise, resultArr |-> resultArr, settle |-> settle,
   value |-> value, regs |-> regs, nextId |-> nextId, loops |-> loops,
   calls |-> calls, draws |-> draws, failed |-> failed, produced |-> produced,
   baked |-> baked, shared |-> shared, given |-> given]

Becomes(S) ==
  /\ renderProps' = S.renderProps /\ cache' = S.cache /\ ops' = S.ops
  /\ nextOp' = S.nextOp /\ id' = S.id /\ array' = S.array
  /\ currentIndex' = S.currentIndex /\ callback' = S.callback
  /\ result' = S.result /\ promise' = S.promise /\ resultArr' = S.resultArr
  /\ settle' = S.settle /\ value' = S.value /\ regs' = S.regs
  /\ nextId' = S.nextId /\ loops' = S.loops /\ calls' = S.calls
  /\ draws' = S.draws /\ failed' = S.failed /\ produced' = S.produced
  /\ baked' = S.baked /\ shared' = S.shared /\ given' = S.given

\* ------------------------------------------------------- window / promise
\* this.id = window.requestIdleCallback(this.requestIdleCallback)
RequestIdle(S) ==
  [S EXCEPT !.id = S.nextId, !.regs = @ \cup {S.nextId}, !.nextId = @ + 1]

\* window.cancelIdleCallback(this.id)
CancelIdle(S) == [S EXCEPT !.regs = @ \ {S.id}]

\* this.resolve(this.result): settles the promise only if it is pending
Resolve(S) ==
  IF S.settle[S.promise] = "pending"
  THEN [S EXCEPT !.settle[S.promise] = "resolved",
                 !.value[S.promise] = S.resultArr[S.result]]
  ELSE S

\* this.reject('Cancelled')
Reject(S) ==
  IF S.settle[S.promise] = "pending"
  THEN [S EXCEPT !.settle[S.promise] = "Cancelled"]
  ELSE S

\* --------------------------------------------------------- draw routines
\* The expensive production step for the style of item i: Grid.renderOffscreen,
\* loadImage.
Produce(S, i) == [S EXCEPT !.produced[ItemStyle(i)] = @ + 1]

\* cache lookup: on a miss (Grid) the image is produced at once and stored
Cached(S, i) ==
  IF ItemStyle(i) \in S.cache THEN S
  ELSE [Produce(S, i) EXCEPT !.cache = @ \cup {ItemStyle(i)},
                             !.baked[ItemStyle(i)] = dpr]

\* item.renderProps = renderProps
Persist(S, i) == [S EXCEPT !.renderProps = @ \cup {i}]

\* the canvas call that paints the item (putImageData, drawImage, fillText, stroke)
Paint(S, b, i) == [S EXCEPT !.draws[b] = Append(@, i)]

\* What one invocation of a draw routine gives back to the closure that called it.
Returned(S, how, n) == [s |-> S, out |-> how, op |-> n]

\* Grid.render (static): rounding origin[0] raises when origin is missing;
\* otherwise the geometry is persisted, the cache consulted or filled, the
\* image painted.
GridRender(S, b, i) ==
  IF ~ItemValid(i) THEN Returned(S, "throw", 0)
  ELSE Returned(Paint(Cached(Persist(S, i), i), b, i), "value", 0)

\* Grid.render (static), older variant: no persisted geometry;
\* ctx.putImageData raises when ctx is undefined.
GridRenderOld(S, b, i) ==
  IF ~ctx THEN Returned(Cached(S, i), "throw", 0)
  ELSE Returned(Paint(Cached(S, i), b, i), "value", 0)

\* Text.render (static)
TextRender(S, b, i) ==
  IF ~ItemValid(i) THEN Returned(S, "throw", 0)
  ELSE Returned(Paint(Persist(S, i), b, i), "value", 0)

\* the closure of Line.render() followed by Line.render (static):
\* path.map raises when path is missing, ctx.beginPath() when ctx is
\* undefined (before anything is persisted)
LineRender(S, b, i) ==
  IF ~ItemValid(i) \/ ~ctx THEN Returned(S, "throw", 0)
  ELSE Returned(Paint(Persist(S, i), b, i), "value", 0)

\* Marker.render (static, async) up to its first suspension.  An async
\* function never raises synchronously: a missing position gives a rejected
\* promise.  On a cache hit the image is drawn at once and the promise is
\* already resolved; on a miss the activation waits for loadImage.
MarkerRender(S, b, i) ==
  IF ~ItemValid(i) THEN Returned(S, "rejected", 0)
  ELSE IF ItemStyle(i) \in S.cache
       THEN Returned(Paint(Persist(S, i), b, i), "value", 0)
       ELSE Returned([Produce(Persist(S, i), i) EXCEPT
                        !.ops = @ \cup {[n |-> S.nextOp, item |-> i, cb |-> b]},
                        !.nextOp = @ + 1],
                     "pending", S.nextOp)

\* Marker.render (static, async), older variant: no cache, always loadImage.
MarkerRenderOld(S, b, i) ==
  IF ~ItemValid(i) THEN Returned(S, "rejected", 0)
  ELSE Returned([Produce(Persist(S, i), i) EXCEPT
                   !.ops = @ \cup {[n |-> S.nextOp, item |-> i, cb |-> b]},
                   !.nextOp = @ + 1],
                "pending", S.nextOp)

\* The arrow function each layer's render() hands to scheduler.execute.
\* Marker returns the promise of Marker.render; the older Marker drops it.
Callback(S, i) ==
  LET b == S.callback
      S0 == [S EXCEPT !.calls[b] = Append(@, i)]
  IN CASE layer = "Grid" -> GridRender(S0, b, i)
       [] layer = "GridOld" -> GridRenderOld(S0, b, i)
       [] layer = "Text" -> TextRender(S0, b, i)
       [] layer \in {"Line", "LineCtx"} -> LineRender(S0, b, i)
       [] layer = "Marker" -> MarkerRender(S0, b, i)
       [] layer = "MarkerOld" -> [MarkerRenderOld(S0, b, i) EXCEPT !.out = "value"]

\* ------------------------------------------------------ scheduler: loops
\* this.result.push(<value>): the array was read off this.result before the
\* callback was invoked, so res is the batch whose array receives the value.
Push(S, res, v) == [S EXCEPT !.resultArr[res] = Append(@, v)]

\* an async loop that reads the remaining time before it looks whether the
\* batch is complete
RECURSIVE requestIdleCallbackA_TimeFirst(_, _)
requestIdleCallbackA_TimeFirst(S, k) ==
  IF k = 0
  THEN RequestIdle(S)
  ELSE IF S.currentIndex >= Len(S.array)
  THEN Resolve([S EXCEPT !.id = Undefined])
  ELSE LET r == Callback(S, S.array[S.currentIndex + 1]) IN
       CASE r.out \in {"throw", "rejected"} ->
              [r.s EXCEPT !.failed = @ \cup {S.callback}]
         [] r.out = "pending" ->
              [r.s EXCEPT !.loops = @ \cup {[op |-> r.op, res |-> S.result]}]
         [] OTHER ->
              requestIdleCallbackA_TimeFirst(
                [Push(r.s, S.result, S.array[S.currentIndex + 1])
                   EXCEPT !.currentIndex = @ + 1],
                k - 1)

\* Scheduler.requestIdleCallback, async variant.  k is the number of further
\* IdleDeadline.timeRemaining() readings that are nonzero.
RECURSIVE requestIdleCallbackA(_, _)
requestIdleCallbackA(S, k) ==
  IF S.currentIndex >= Len(S.array)
  THEN Resolve([S EXCEPT !.id = Undefined])
  ELSE IF k = 0
  THEN RequestIdle(S)
  ELSE LET r == Callback(S, S.array[S.currentIndex + 1]) IN
       CASE r.out \in {"throw", "rejected"} ->
              [r.s EXCEPT !.failed = @ \cup {S.callback}]
         [] r.out = "pending" ->
              [r.s EXCEPT !.loops = @ \cup {[op |-> r.op, res |-> S.result]}]
         [] OTHER ->
              requestIdleCallbackA(
                [Push(r.s, S.result, S.array[S.currentIndex + 1])
                   EXCEPT !.currentIndex = @ + 1],
                k - 1)

\* The rest of an async-variant activation after `await this.callback(...)`
\* has produced the value for item i.
ResumeA(S, res, i, k) ==
  requestIdleCallbackA([Push(S, res, i) EXCEPT !.currentIndex = @ + 1], k)

\* this.array.shift(): the first element leaves the array object, which is
\* the caller's list when the scheduler holds that very object
Shift(S) ==
  [S EXCEPT !.array = Tail(@),
            !.given[S.callback] = IF S.shared THEN Tail(@) ELSE @]

\* Scheduler.requestIdleCallback, setTimeout variant.
RECURSIVE requestIdleCallbackB(_, _)
requestIdleCallbackB(S, k) ==
  IF Len(S.array) = 0
  THEN Resolve([S EXCEPT !.id = Undefined])
  ELSE IF k = 0
  THEN RequestIdle(S)
  ELSE LET r == Callback(Shift(S), Head(S.array)) IN
       IF r.out = "throw"
       THEN [r.s EXCEPT !.failed = @ \cup {S.callback}]
       ELSE requestIdleCallbackB(Push(r.s, S.result, Head(S.array)), k - 1)

\* --------------------------------------------------- scheduler: execute
\* a termination that also drops what the layer has cached
Terminate_Clearing(S) ==
  IF S.id # Undefined THEN [Reject(CancelIdle(S)) EXCEPT !.cache = {}] ELSE S

\* the shared tail of execute: terminate the old execution
Terminate(S) == IF S.id # Undefined THEN Reject(CancelIdle(S)) ELSE S

\* an execute that starts on the items before it returns
ExecuteA_Eager(S, b, a) ==
  LET S1 == [S EXCEPT !.array = a, !.shared = TRUE, !.given[b] = a,
                      !.currentIndex = 0, !.callback = b, !.result = b]
      S2 == Terminate(S1)
  IN requestIdleCallbackA([S2 EXCEPT !.promise = b, !.settle[b] = "pending"], 1)

\* Scheduler.execute, async variant, called as batch b with item list a
ExecuteA(S, b, a) ==
  LET S1 == [S EXCEPT !.array = a, !.shared = TRUE, !.given[b] = a,
                      !.currentIndex = 0, !.callback = b, !.result = b]
      S2 == RequestIdle(Terminate(S1))
  IN [S2 EXCEPT !.promise = b, !.settle[b] = "pending"]

\* an execute of the setTimeout variant that keeps the caller's list itself
ExecuteB_Aliasing(S, b, a) ==
  LET S1 == [S EXCEPT !.array = a, !.shared = TRUE, !.given[b] = a,
                      !.callback = b, !.result = b]
      S2 == Terminate(S1)
  IN [S2 EXCEPT !.promise = b, !.settle[b] = "pending"]

\* Scheduler.execute, setTimeout variant (this.array = [...array]); the
\* caller adds the timer
ExecuteB(S, b, a) ==
  LET S1 == [S EXCEPT !.array = a, !.shared = FALSE, !.given[b] = a,
                      !.callback = b, !.result = b]
      S2 == Terminate(S1)
  IN [S2 EXCEPT !.promise = b, !.settle[b] = "pending"]

\* ---------------------------------------------------------------- inputs
\* Item lists a caller can hand to config(): the empty list, or MaxItems
\* distinct items listed in increasing order.
RECURSIVE ListsOfLen(_)
ListsOfLen(n) ==
  IF n = 0 THEN {<<>>}
  ELSE {Append(l, i) : l \in ListsOfLen(n - 1), i \in Items}

Increasing(l) == \A p, q \in 1..Len(l) : p < q => l[p] < l[q]

DataLists == {l \in ListsOfLen(0) \cup ListsOfLen(MaxItems) : Increasing(l)}

\* The older Grid.config reads origin[0] of every item and raises when it is
\* missing, so such a list never becomes layer.data there.
Accepts(l) == layer # "GridOld" \/ \A p \in 1..Len(l) : ItemValid(l[p])

\* ----------------------------------------------------------------- state
Init ==
  /\ variant \in Variants
  /\ layer \in Layers
  /\ data = <<>>
  /\ ctx = FALSE /\ props = "incomplete" /\ dpr = Undefined
  /\ nconf = 0
  /\ renderProps = {} /\ cache = {} /\ ops = {} /\ nextOp = 1
  /\ id = Undefined /\ array = <<>> /\ currentIndex = 0
  /\ callback = 0 /\ result = 0 /\ promise = 0
  /\ resultArr = [b \in Batches |-> <<>>]
  /\ settle = [b \in Batches |-> "none"]
  /\ value = [b \in Batches |-> <<>>]
  /\ regs = {} /\ nextId = 1 /\ timers = 0 /\ loops = {}
  /\ nb = 0
  /\ input = [b \in Batches |-> <<>>]
  /\ handed = {}
  /\ quiet = TRUE /\ inSuccession = {}
  /\ calls = [b \in Batches |-> <<>>]
  /\ draws = [b \in Batches |-> <<>>]
  /\ failed = {}
  /\ produced = [s \in Styles |-> 0]
  /\ baked = [s \in Styles |-> 0]
  /\ shared = FALSE /\ given = [b \in Batches |-> <<>>]
  /\ found = <<>> /\ findStatus = "idle"
  /\ items = <<>> /\ lineWidth = 4 /\ painted = <<>> /\ query = <<>> /\ changed = {}
  /\ assigned = FALSE

\* found / findStatus hold what the latest findByPosition call gave its
\* caller; any other operation starts from no such value.
NoFind == found' = <<>> /\ findStatus' = "idle"

\* props.dpr, default 1.  The scale factor is told apart where it is baked
\* into cached rasters (Grid); the other layers are configured at 1.
Dprs == IF layer = "Grid" THEN {1, 2} ELSE {1}

\* layer.config(props) with canvas (older layers: ctx), height and width
\* present: take the context, install the list.
Config(l, d) ==
  /\ nconf < MaxConfigs
  /\ nconf' = nconf + 1
  /\ props' = "complete"
  /\ ctx' = TRUE
  /\ dpr' = d
  /\ data' = IF Accepts(l) THEN l ELSE data
  /\ NoFind
  /\ UNCHANGED <<variant, layer, handed, quiet, inSuccession, input, nb, timers, svars, gvars>>

\* The layers whose config() checks canvas, height and width before it
\* assigns anything.
Validates == layer \in {"Grid", "Marker", "MarkerOld", "Text", "Line"}

\* layer.config(props) with canvas, height or width missing; l is props.data
\* (the empty list when it is missing too).  A layer that validates returns
\* at once; the older Line and Grid assign this.ctx = props.ctx, which is
\* undefined, and this.data.
ConfigIncomplete(l) ==
  /\ nconf < MaxConfigs
  /\ nconf' = nconf + 1
  /\ props' = "incomplete"
  /\ ctx' = IF Validates THEN ctx ELSE FALSE
  /\ dpr' = dpr
  /\ data' = IF Validates \/ ~Accepts(l) THEN data ELSE l
  /\ NoFind
  /\ UNCHANGED <<variant, layer, handed, quiet, inSuccession, input, nb, timers, svars, gvars>>

\* What render() gives back for batch b: Marker returns the scheduler's
\* promise, every other layer chains .catch() and returns nothing.
RenderReturns(b) == IF layer = "Marker" THEN {b} ELSE {}

\* layer.render(): scheduler.execute(this.data, closure)
Render ==
  /\ nb < MaxBatches
  /\ nb' = nb + 1
  /\ input' = [input EXCEPT ![nb + 1] = data]
  /\ handed' = handed \cup RenderReturns(nb + 1)
  /\ quiet' = TRUE
  /\ inSuccession' = IF nb >= 1 /\ quiet THEN inSuccession \cup {nb + 1} ELSE inSuccession
  /\ IF variant = "async"
     THEN Becomes(ExecuteA(St, nb + 1, data)) /\ timers' = timers
     ELSE Becomes(ExecuteB(St, nb + 1, data)) /\ timers' = timers + 1
  /\ NoFind
  /\ UNCHANGED <<ctx, props, dpr, variant, layer, data, nconf, gvars>>

\* the setTimeout callback of the setTimeout variant's execute
TimerFires ==
  /\ timers > 0
  /\ timers' = timers - 1
  /\ Becomes(RequestIdle(St))
  /\ NoFind
  /\ quiet' = FALSE
  /\ UNCHANGED <<ctx, props, dpr, variant, layer, data, nconf, handed, inSuccession, input, nb, gvars>>

\* A loop yields (registers a further idle callback) only while the ids
\* handed out stay within MaxId; a step that registers nothing is never held
\* back.
WithinIds(S) == S.nextId = nextId \/ S.nextId <= MaxId + 1

Oldest(rs) == CHOOSE r \in rs : \A q \in rs : r <= q

\* The host runs the oldest pending idle callback; k of its
\* timeRemaining() readings are nonzero.
IdleFires(k) ==
  /\ regs # {}
  /\ LET S0 == [St EXCEPT !.regs = @ \ {Oldest(regs)}]
         S1 == IF variant = "async" THEN requestIdleCallbackA(S0, k)
                                    ELSE requestIdleCallbackB(S0, k)
     IN WithinIds(S1) /\ Becomes(S1)
  /\ NoFind
  /\ quiet' = FALSE
  /\ UNCHANGED <<ctx, props, dpr, variant, layer, data, nconf, handed, inSuccession, input, nb, timers, gvars>>

\* loadImage resolves for one suspended Marker.render activation: the image
\* is cached (newer Marker) and drawn; an async-variant loop awaiting this
\* activation then continues with k nonzero timeRemaining() readings.
ImageLoaded(o, k) ==
  /\ o \in ops
  /\ LET S0 == [St EXCEPT !.ops = @ \ {o},
                          !.cache = IF layer = "Marker" THEN @ \cup {ItemStyle(o.item)} ELSE @]
         S1 == Paint(S0, o.cb, o.item)
         waiting == {l \in loops : l.op = o.n}
         S2 == IF waiting = {} THEN S1
               ELSE LET l == CHOOSE w \in waiting : TRUE
                    IN ResumeA([S1 EXCEPT !.loops = @ \ {l}], l.res, o.item, k)
     IN /\ waiting = {} => k = 0
        /\ WithinIds(S2) /\ Becomes(S2)
  /\ NoFind
  /\ quiet' = FALSE
  /\ UNCHANGED <<ctx, props, dpr, variant, layer, data, nconf, handed, inSuccession, input, nb, timers, gvars>>

\* Query points, told apart by the set of items whose geometry contains
\* them: a point inside every item's box and a point outside all of them.
HitSets == {Items, {}}

\* layer.findByPosition({x, y}); hits is the set of items whose geometry
\* contains the point.
Contains(i, hits) == i \in hits

FindByPosition(hits) ==
  /\ LET Safe(i) == i \in renderProps /\ Contains(i, hits)
         Raw(i) == Contains(i, hits)
     IN CASE layer = "GridOld" ->
               /\ found' = SelectSeq(data, Raw)
               /\ findStatus' = "returned"
          [] layer = "LineCtx" ->
               IF data # <<>> /\ (~ctx \/ \E p \in 1..Len(data) : data[p] \notin renderProps)
               THEN found' = <<>> /\ findStatus' = "TypeError"
               ELSE found' = SelectSeq(data, Raw) /\ findStatus' = "returned"
          [] OTHER ->
               /\ found' = SelectSeq(data, Safe)
               /\ findStatus' = "returned"
  /\ UNCHANGED <<ctx, props, dpr, variant, layer, data, nconf, handed, quiet, inSuccession, input, nb,
                 timers, svars, gvars>>

Next ==
  \/ \E l \in DataLists, d \in Dprs : Config(l, d)
  \/ \E l \in DataLists : ConfigIncomplete(l)
  \/ Render
  \/ TimerFires
  \/ \E k \in 0..MaxItems : IdleFires(k)
  \/ \E o \in ops, k \in 0..MaxItems : ImageLoaded(o, k)
  \/ \E hits \in HitSets : FindByPosition(hits)

Spec == Init /\ [][Next]_vars

\* The host keeps running what it has queued: a due timer fires, a registered
\* idle callback is run and, again and again, with idle time left for at
\* least one item, and a started image load completes.
Fairness ==
  /\ WF_vars(TimerFires)
  /\ WF_vars(\E k \in 1..MaxItems : IdleFires(k))
  /\ WF_vars(\E o \in ops, k \in 0..MaxItems : ImageLoaded(o, k))

\* A layer constructed with complete props and a list of well-formed items
\* (on which the closure of render() never raises), then only rendered.
FairInit ==
  /\ variant \in Variants
  /\ layer \in Layers
  /\ data \in {l \in DataLists : \A p \in 1..Len(l) : ItemValid(l[p])}
  /\ ctx = TRUE /\ props = "complete" /\ dpr = 1
  /\ nconf = 0
  /\ renderProps = {} /\ cache = {} /\ ops = {} /\ nextOp = 1
  /\ id = Undefined /\ array = <<>> /\ currentIndex = 0
  /\ callback = 0 /\ result = 0 /\ promise = 0
  /\ resultArr = [b \in Batches |-> <<>>]
  /\ settle = [b \in Batches |-> "none"]
  /\ value = [b \in Batches |-> <<>>]
  /\ regs = {} /\ nextId = 1 /\ timers = 0 /\ loops = {}
  /\ nb = 0
  /\ input = [b \in Batches |-> <<>>]
  /\ handed = {}
  /\ quiet = TRUE /\ inSuccession = {}
  /\ calls = [b \in Batches |-> <<>>]
  /\ draws = [b \in Batches |-> <<>>]
  /\ failed = {}
  /\ produced = [s \in Styles |-> 0]
  /\ baked = [s \in Styles |-> 0]
  /\ shared = FALSE /\ given = [b \in Batches |-> <<>>]
  /\ found = <<>> /\ findStatus = "idle"
  /\ items = <<>> /\ lineWidth = 4 /\ painted = <<>> /\ query = <<>> /\ changed = {}
  /\ assigned = FALSE

FairNext ==
  \/ Render
  \/ TimerFires
  \/ \E k \in 0..MaxItems : IdleFires(k)
  \/ \E o \in ops, k \in 0..MaxItems : ImageLoaded(o, k)

FairSpec == FairInit /\ [][FairNext]_vars /\ Fairness

TypeOK ==
  /\ id \in Nat /\ regs \subseteq 1..(MaxId + MaxBatches)
  /\ nb \in 0..MaxBatches
  /\ \A b \in Batches : settle[b] \in {"none", "pending", "resolved", "Cancelled", "Error"}

\* C12: for each style signature the expensive production step (Grid.renderOffscreen,
\* Marker loadImage) runs at most once over all render passes of the layer
\* instance.
C12_ProducedOnce == \A s \in Styles : produced[s] <= 1

\* ================================================================ geometry
\* The same layers with the geometry of their items.  Numbers are kept in
\* quarters (n stands for n/4), so that fractional input and its rounding are
\* both representable; Px(k) is k whole pixels.  An optional field is <<>>
\* when undefined and <<v>> when it holds v.
Px(k) == 4 * k
None == <<>>
Some(v) == <<v>>
\* destructuring default: `{ f = d } = obj`
Default(o, d) == IF o = None THEN d ELSE o[1]

\* Math.round: nearest integer, halves upward
Round(n) == 4 * ((n + 2) \div 4)
RoundPoint(p) == <<Round(p[1]), Round(p[2])>>

\* What the closure of render() does with one item: the item as it is left,
\* whether a canvas draw call was issued, and ctx.lineWidth afterwards.
Each(it, d, lw) == [item |-> it, drawn |-> d, lw |-> lw]

\* Grid.render(): defaults written back on the item, then Grid.render (static)
EachGrid(it, lw) ==
  LET height == Default(it.height, 0)
      width == Default(it.width, 0)
      rp == [height |-> Round(height),
                      origin |-> RoundPoint(it.origin),
                      width |-> Round(width)]
  IN Each([it EXCEPT !.height = Some(height), !.width = Some(width),
                     !.renderProps = Some(rp)],
          ~(rp.width = 0 \/ rp.height = 0), lw)

\* Line.render(): rounding in the closure, then Line.render (static)
EachLine(it, lw) ==
  LET roundedPath == [k \in 1..Len(it.path) |-> RoundPoint(it.path[k])]
      roundedWidth == Round(IF it.width = None \/ it.width = Some(0)
                            THEN Px(1) ELSE it.width[1])
  IN IF roundedWidth = 0 \/ Len(roundedPath) <= 1
     THEN Each(it, FALSE, lw)
     ELSE Each([it EXCEPT !.renderProps =
                  Some([path |-> roundedPath, width |-> roundedWidth])],
               TRUE, roundedWidth)

\* ctx.measureText(text).width at a font size: the glyphs A and B advance by
\* the font size ("AB" at 10px measures 20), the thin glyph i by a twentieth
\* of it ("ABi" at 10px measures 20.5).
Glyphs(t) == CASE t = "" -> 0 [] t = "A" -> 1 [] t = "AB" -> 2 [] t = "ABi" -> 2
Thin(t) == IF t = "ABi" THEN 1 ELSE 0
measureText(t, fontSize) == Glyphs(t) * fontSize + Thin(t) * (fontSize \div 20)

\* an anchor resolution in which a keyword offsets the explicit anchor
AnchorOrigin_Relative(anchorOrigin, anchorOriginDescription, textWidth, textHeight) ==
  LET base == IF anchorOrigin # None THEN anchorOrigin[1] ELSE <<0, 0>>
      half == Round(textWidth \div 2)
      mid == Round(textHeight \div 2)
      k == CASE anchorOriginDescription = "bottom-center" -> <<-half, 0>>
             [] anchorOriginDescription = "bottom-right" -> <<-Round(textWidth), 0>>
             [] anchorOriginDescription = "center" -> <<-half, mid>>
             [] anchorOriginDescription = "middle-left" -> <<0, mid>>
             [] anchorOriginDescription = "middle-right" -> <<-Round(textWidth), mid>>
             [] anchorOriginDescription = "top-center" -> <<-half, Round(textHeight)>>
             [] anchorOriginDescription = "top-left" -> <<0, Round(textHeight)>>
             [] anchorOriginDescription = "top-right" ->
                  <<-Round(textWidth), Round(textHeight)>>
             [] OTHER -> <<0, 0>>
  IN <<base[1] + k[1], base[2] + k[2]>>

\* an anchor resolution in which an explicit anchor wins over a keyword
AnchorOrigin_ExplicitFirst(anchorOrigin, anchorOriginDescription, textWidth, textHeight) ==
  IF anchorOrigin # None THEN anchorOrigin[1]
  ELSE LET half == Round(textWidth \div 2)
           mid == Round(textHeight \div 2)
       IN CASE anchorOriginDescription = "bottom-center" -> <<-half, 0>>
            [] anchorOriginDescription = "bottom-right" -> <<-Round(textWidth), 0>>
            [] anchorOriginDescription = "center" -> <<-half, mid>>
            [] anchorOriginDescription = "middle-left" -> <<0, mid>>
            [] anchorOriginDescription = "middle-right" -> <<-Round(textWidth), mid>>
            [] anchorOriginDescription = "top-center" -> <<-half, Round(textHeight)>>
            [] anchorOriginDescription = "top-left" -> <<0, Round(textHeight)>>
            [] anchorOriginDescription = "top-right" ->
                 <<-Round(textWidth), Round(textHeight)>>
            [] OTHER -> <<0, 0>>

\* Text.render (static): the anchor the text is drawn at
AnchorOrigin(anchorOrigin, anchorOriginDescription, textWidth, textHeight) ==
  IF anchorOriginDescription # ""
  THEN CASE anchorOriginDescription = "bottom-center" ->
              <<-Round(textWidth \div 2), 0>>
         [] anchorOriginDescription = "bottom-left" -> <<0, 0>>
         [] anchorOriginDescription = "bottom-right" -> <<-Round(textWidth), 0>>
         [] anchorOriginDescription = "center" ->
              <<-Round(textWidth \div 2), Round(textHeight \div 2)>>
         [] anchorOriginDescription = "middle-left" ->
              <<0, Round(textHeight \div 2)>>
         [] anchorOriginDescription = "middle-right" ->
              <<-Round(textWidth), Round(textHeight \div 2)>>
         [] anchorOriginDescription = "top-center" ->
              <<-Round(textWidth \div 2), Round(textHeight)>>
         [] anchorOriginDescription = "top-left" -> <<0, Round(textHeight)>>
         [] anchorOriginDescription = "top-right" ->
              <<-Round(textWidth), Round(textHeight)>>
         [] OTHER -> <<0, 0>>
  ELSE IF anchorOrigin # None THEN anchorOrigin[1]
  ELSE <<0, 0>>

\* Text.render(): default font size written back, then Text.render (static)
EachText(it, lw) ==
  LET fontSize == Default(it.fontSize, Px(10))
      it1 == [it EXCEPT !.fontSize = Some(fontSize)]
      internalFontSize == Round(fontSize)
      internalWidth == Round(measureText(it.text, internalFontSize))
      internalAnchorOrigin ==
        AnchorOrigin(it.anchorOrigin, it.anchorOriginDescription,
                     internalWidth, internalFontSize)
  IN IF it.text = ""
     THEN Each(it1, FALSE, lw)
     ELSE Each([it1 EXCEPT
                  !.anchorOrigin = Some(internalAnchorOrigin),
                  !.renderProps =
                     Some([anchorOrigin |-> internalAnchorOrigin,
                           fontSize |-> internalFontSize,
                           position |-> RoundPoint(it.position),
                           width |-> internalWidth])],
               TRUE, lw)

\* Text.render() and Text.render (static) of the first Text variant: the font
\* size is rounded, nothing else; the position and the measured width are
\* persisted as they are, the font as the string ctx.font.
EachTextOld(it, lw) ==
  LET roundedFontSize == Round(Default(it.fontSize, Px(10)))
      textWidth == measureText(it.text, roundedFontSize)
      internalAnchorOrigin ==
        AnchorOrigin(it.anchorOrigin, it.anchorOriginDescription,
                     textWidth, roundedFontSize)
  IN IF it.text = ""
     THEN Each(it, FALSE, lw)
     ELSE Each([it EXCEPT
                  !.anchorOrigin = Some(internalAnchorOrigin),
                  !.renderProps =
                     Some([anchorOrigin |-> internalAnchorOrigin,
                           font |-> <<roundedFontSize, "px sans-serif">>,
                           fontSize |-> roundedFontSize,
                           position |-> it.position,
                           width |-> textWidth])],
               TRUE, lw)

\* Marker.render(): defaults written back, then Marker.render (static).  The
\* rotation is a number of quarter turns (theta = rotation * pi / 2).
EachMarker(it, lw) ==
  LET anchorOrigin == Default(it.anchorOrigin, <<0, 0>>)
      rotation == Default(it.rotation, 0)
  IN Each([it EXCEPT
             !.anchorOrigin = Some(anchorOrigin),
             !.rotation = Some(rotation),
             !.renderProps =
                Some([anchorOrigin |-> RoundPoint(anchorOrigin),
                      height |-> Round(it.height),
                      position |-> RoundPoint(it.position),
                      rotation |-> rotation,
                      width |-> Round(it.width)])],
          TRUE, lw)

EachItem(it, lw) ==
  CASE layer = "Grid" -> EachGrid(it, lw)
    [] layer \in {"Line", "LineCtx"} -> EachLine(it, lw)
    [] layer = "Text" -> EachText(it, lw)
    [] layer = "TextOld" -> EachTextOld(it, lw)
    [] layer = "Marker" -> EachMarker(it, lw)

\* Math.cos / Math.sin at a whole number of quarter turns
Cos(q) == CASE q % 4 = 0 -> 1 [] q % 4 = 1 -> 0 [] q % 4 = 2 -> -1 [] q % 4 = 3 -> 0
Sin(q) == CASE q % 4 = 0 -> 0 [] q % 4 = 1 -> 1 [] q % 4 = 2 -> 0 [] q % 4 = 3 -> -1

\* the same with the rotation angle not negated
getTransformedAndRotatedPosition_Unnegated(position, rotationOrigin, rotation, deltaMove) ==
  LET rotationMatrix == <<<<Cos(rotation), -Sin(rotation)>>,
                          <<Sin(rotation), Cos(rotation)>>>>
      PAVector == <<position[1] - rotationOrigin[1], position[2] - rotationOrigin[2]>>
      rotated == <<rotationMatrix[1][1] * PAVector[1] + rotationMatrix[1][2] * PAVector[2],
                   rotationMatrix[2][1] * PAVector[1] + rotationMatrix[2][2] * PAVector[2]>>
  IN <<rotationOrigin[1] + rotated[1] - deltaMove[1],
       rotationOrigin[2] + rotated[2] - deltaMove[2]>>

\* getTransformedAndRotatedPosition
getTransformedAndRotatedPosition(position, rotationOrigin, rotation, deltaMove) ==
  LET rotationMatrix == <<<<Cos(-rotation), -Sin(-rotation)>>,
                          <<Sin(-rotation), Cos(-rotation)>>>>
      PAVector == <<position[1] - rotationOrigin[1], position[2] - rotationOrigin[2]>>
      rotated == <<rotationMatrix[1][1] * PAVector[1] + rotationMatrix[1][2] * PAVector[2],
                   rotationMatrix[2][1] * PAVector[1] + rotationMatrix[2][2] * PAVector[2]>>
  IN <<rotationOrigin[1] + rotated[1] - deltaMove[1],
       rotationOrigin[2] + rotated[2] - deltaMove[2]>>

\* The drawing side of Marker.render (static): ctx.translate(position),
\* ctx.rotate(rotation), ctx.translate(-position + anchorOrigin), then
\* ctx.drawImage at position with size width x height.  ctx.rotate(angle)
\* turns the coordinate system clockwise; the pixel at q of the image box
\* lands at position + rotate(angle)(q - position + anchorOrigin).
rotate(angle, v) ==
  <<Cos(angle) * v[1] - Sin(angle) * v[2], Sin(angle) * v[1] + Cos(angle) * v[2]>>

\* the whole pixels the drawn image covers
drawImage(rp) ==
  {LET v == rotate(rp.rotation, <<Px(i) + rp.anchorOrigin[1], Px(j) + rp.anchorOrigin[2]>>)
   IN <<rp.position[1] + v[1], rp.position[2] + v[2]>> :
     i \in 0..(rp.width \div 4), j \in 0..(rp.height \div 4)}

\* the filter predicates of findByPosition
\* a box test that leaves the edges out
GridContains_Open(rp, x, y) ==
  /\ rp.origin[1] < x
  /\ x < rp.origin[1] + rp.width
  /\ rp.origin[2] < y
  /\ y < rp.origin[2] + rp.height

GridContains(rp, x, y) ==
  /\ rp.origin[1] <= x
  /\ x <= rp.origin[1] + rp.width
  /\ rp.origin[2] <= y
  /\ y <= rp.origin[2] + rp.height

TextContains(rp, x, y) ==
  /\ rp.position[1] + rp.anchorOrigin[1] <= x
  /\ x <= rp.position[1] + rp.anchorOrigin[1] + rp.width
  /\ rp.position[2] + rp.anchorOrigin[2] >= y
  /\ y >= rp.position[2] + rp.anchorOrigin[2] - rp.fontSize

\* a number compared with `position[1] + height` where height is the font
\* string: the sum is a string that is no numeral, its number value is NaN,
\* and every comparison with NaN is false
LessOrEqualFont(v, position, font) == FALSE

\* first Text variant: `font: height`, no anchor
TextOldContains(rp, x, y) ==
  /\ rp.position[1] <= x
  /\ x <= rp.position[1] + rp.width
  /\ rp.position[2] <= y
  /\ LessOrEqualFont(y, rp.position[2], rp.font)

MarkerContains(rp, x, y) ==
  LET t == getTransformedAndRotatedPosition(<<x, y>>, rp.position,
             rp.rotation, rp.anchorOrigin)
  IN /\ rp.position[1] <= t[1]
     /\ t[1] <= rp.position[1] + rp.width
     /\ rp.position[2] <= t[2]
     /\ t[2] <= rp.position[2] + rp.height

\* ctx.isPointInStroke(path2D, x, y) for a polyline of horizontal and
\* vertical segments stroked with butt caps at the given line width
Between(a, b, v) == (a <= v /\ v <= b) \/ (b <= v /\ v <= a)
Abs(n) == IF n < 0 THEN -n ELSE n
isPointInStroke(path, width, x, y) ==
  \E k \in 1..(Len(path) - 1) :
    LET a == path[k]
        b == path[k + 1]
    IN \/ a[2] = b[2] /\ a[1] # b[1] /\ Between(a[1], b[1], x) /\ 2 * Abs(y - a[2]) <= width
       \/ a[1] = b[1] /\ a[2] # b[2] /\ Between(a[2], b[2], y) /\ 2 * Abs(x - a[1]) <= width

\* What findByPosition gives: the positions of the items it returns, how it
\* ended, and ctx.lineWidth afterwards.
Result(at, how, lw) == [at |-> at, status |-> how, lw |-> lw]

Positions(its) == [k \in 1..Len(its) |-> k]

\* Grid / Text / Marker: items without renderProps are filtered out
BoxFilter(its, lw, x, y) ==
  LET Test(p) ==
        /\ its[p].renderProps # None
        /\ CASE layer = "Grid" -> GridContains(its[p].renderProps[1], x, y)
             [] layer = "Text" -> TextContains(its[p].renderProps[1], x, y)
             [] layer = "TextOld" -> TextOldContains(its[p].renderProps[1], x, y)
             [] layer = "Marker" -> MarkerContains(its[p].renderProps[1], x, y)
  IN Result(SelectSeq(Positions(its), Test), "returned", lw)

\* Line: ctx.lineWidth = renderProps.width before each test
RECURSIVE LineFilter(_, _, _, _, _, _)
LineFilter(its, p, lw, acc, x, y) ==
  IF p > Len(its) THEN Result(acc, "returned", lw)
  ELSE IF its[p].renderProps = None THEN LineFilter(its, p + 1, lw, acc, x, y)
  ELSE LET rp == its[p].renderProps[1] IN
       LineFilter(its, p + 1, rp.width,
                  IF isPointInStroke(rp.path, rp.width, x, y)
                  THEN Append(acc, p) ELSE acc,
                  x, y)

\* Line, ctx variant: ctx.lineWidth = width (the item's own field; the canvas
\* ignores an assignment that is not a positive number), then
\* renderProps.path2D is read with no guard
RECURSIVE LineCtxFilter(_, _, _, _, _, _)
LineCtxFilter(its, p, lw, acc, x, y) ==
  IF p > Len(its) THEN Result(acc, "returned", lw)
  ELSE LET width == its[p].width
           lw1 == IF width # None /\ width[1] > 0 THEN width[1] ELSE lw
       IN IF its[p].renderProps = None THEN Result(<<>>, "TypeError", lw1)
          ELSE LineCtxFilter(its, p + 1, lw1,
                 IF isPointInStroke(its[p].renderProps[1].path, lw1, x, y)
                 THEN Append(acc, p) ELSE acc,
                 x, y)

filter(its, lw, x, y) ==
  CASE layer = "Line" -> LineFilter(its, 1, lw, <<>>, x, y)
    [] layer = "LineCtx" -> LineCtxFilter(its, 1, lw, <<>>, x, y)
    [] OTHER -> BoxFilter(its, lw, x, y)

\* ({ renderProps, ...other }) => other
other(it) == [f \in DOMAIN it \ {"renderProps"} |-> it[f]]

\* ------------------------------------------------------- geometry: inputs
GeoLayers == {"Grid", "Line", "LineCtx", "Text", "TextOld", "Marker"}

At100 == <<Px(100), Px(100)>>
\* a grid, a line, a text and a marker item
GridItem(o, w, h) == [origin |-> o, width |-> w, height |-> h, renderProps |-> None]
LineItem(p, w) == [path |-> p, width |-> w, renderProps |-> None]
TextItem(p, s, a, d, t) ==
  [position |-> p, fontSize |-> s, anchorOrigin |-> a,
   anchorOriginDescription |-> d, text |-> t, renderProps |-> None]
MarkerItem(p, a, r, h) ==
  [position |-> p, anchorOrigin |-> a, rotation |-> r,
   width |-> Px(20), height |-> h, renderProps |-> None]

Fractional == <<Px(100) + 2, Px(100) + 1>>
Offset == <<Px(3), 1 - Px(2)>>

GridItems ==
  {GridItem(At100, None, Some(Px(20))),
   GridItem(At100, Some(Px(20)), Some(Px(20))),
   GridItem(Fractional, Some(Px(20) + 1), Some(Px(20))),
   GridItem(At100, Some(Px(20)), Some(0))}

LineItems ==
  {LineItem(<<At100>>, Some(Px(20))),
   LineItem(<<At100, <<Px(120), Px(100)>>>>, None),
   LineItem(<<At100, <<Px(120), Px(100)>>>>, Some(0)),
   LineItem(<<At100, <<Px(120), Px(100)>>>>, Some(1)),
   LineItem(<<Fractional, <<Px(120), Px(100) + 1>>>>, Some(Px(20)))}

Descriptions ==
  {"bottom-center", "bottom-left", "bottom-right", "center", "middle-left",
   "middle-right", "top-center", "top-left", "top-right"}

TextItems ==
  {TextItem(At100, None, None, "", ""),
   TextItem(At100, None, None, "", "AB"),
   TextItem(Fractional, Some(Px(11)), Some(Offset), "", "AB"),
   TextItem(At100, Some(Px(10)), Some(Offset), "center", "AB")}

\* single texts over every anchor keyword
TextInputs ==
  {TextItem(At100, s, a, d, t) :
     s \in {None, Some(Px(11)), Some(Px(10) + 2)}, a \in {None, Some(Offset)},
     d \in Descriptions, t \in {"A", "AB", "ABi"}}

MarkerItems ==
  {MarkerItem(At100, None, None, Px(20)),
   MarkerItem(At100, Some(<<Px(5) + 2, 0>>), Some(1), Px(20)),
   MarkerItem(Fractional, None, Some(1), Px(10))}

\* single markers over every quarter turn
MarkerInputs ==
  {MarkerItem(p, a, r, h) :
     p \in {At100, Fractional},
     a \in {None, Some(<<Px(5) + 2, 0>>), Some(<<-Px(10), -Px(5)>>)},
     r \in {None, Some(0), Some(1), Some(2), Some(3)},
     h \in {Px(20), Px(10)}}

GeoItems ==
  CASE layer = "Grid" -> GridItems
    [] layer \in {"Line", "LineCtx"} -> LineItems
    [] layer \in {"Text", "TextOld"} -> TextItems
    [] layer = "Marker" -> MarkerItems

GeoInputs ==
  CASE layer \in {"Text", "TextOld"} -> TextInputs
    [] layer = "Marker" -> MarkerInputs
    [] OTHER -> {}

\* the item lists a layer is constructed with: up to MaxItems different
\* items, or one of the single inputs
GeoLists ==
  {l \in UNION {[1..n -> GeoItems] : n \in 1..MaxItems} :
     \A p, q \in 1..Len(l) : p # q => l[p] # l[q]}
  \cup {<<i>> : i \in GeoInputs}

\* the values a caller assigns to field f of an item
GeoValues(f) ==
  CASE f \in {"origin", "position"} -> {At100, Fractional}
    [] f = "path" -> {<<At100>>, <<At100, <<Px(120), Px(100)>>>>}
    [] f = "width" /\ layer \in {"Line", "LineCtx"} -> {None, Some(0), Some(1), Some(Px(20))}
    [] f = "width" /\ layer = "Grid" -> {None, Some(Px(20)), Some(Px(20) + 1)}
    [] f = "height" /\ layer = "Grid" -> {Some(0), Some(Px(20))}
    [] f \in {"width", "height"} /\ layer = "Marker" -> {Px(20), Px(10)}
    [] f = "fontSize" -> {None, Some(Px(11))}
    [] f = "anchorOrigin" -> {None, Some(Offset)}
    [] f = "anchorOriginDescription" -> {"", "center", "top-right"}
    [] f = "text" -> {"", "A", "AB"}
    [] f = "rotation" -> {None, Some(1), Some(2)}

\* pointer positions
Points ==
  {<<Px(105), Px(105)>>, <<Px(200), Px(200)>>, <<Px(95), Px(105)>>,
   At100, <<Px(120), Px(120)>>, <<Px(110), Px(100)>>}

\* ----------------------------------------------------- geometry: actions
GeoInit ==
  /\ variant = "async"
  /\ layer \in GeoLayers
  /\ items \in GeoLists
  /\ lineWidth = 4 /\ painted = <<>> /\ query = <<>> /\ changed = {} /\ assigned = FALSE
  /\ data = <<>> /\ nconf = 0
  /\ ctx = TRUE /\ props = "complete" /\ dpr = 1
  /\ renderProps = {} /\ cache = {} /\ ops = {} /\ nextOp = 1
  /\ id = Undefined /\ array = <<>> /\ currentIndex = 0
  /\ callback = 0 /\ result = 0 /\ promise = 0
  /\ resultArr = [b \in Batches |-> <<>>]
  /\ settle = [b \in Batches |-> "none"]
  /\ value = [b \in Batches |-> <<>>]
  /\ regs = {} /\ nextId = 1 /\ timers = 0 /\ loops = {}
  /\ nb = 0
  /\ input = [b \in Batches |-> <<>>]
  /\ handed = {}
  /\ quiet = TRUE /\ inSuccession = {}
  /\ calls = [b \in Batches |-> <<>>]
  /\ draws = [b \in Batches |-> <<>>]
  /\ failed = {}
  /\ produced = [s \in Styles |-> 0]
  /\ baked = [s \in Styles |-> 0]
  /\ shared = FALSE /\ given = [b \in Batches |-> <<>>]
  /\ found = <<>> /\ findStatus = "idle"

\* one render pass run to its end: the closure applied to every item in order
RECURSIVE Pass(_, _, _, _)
Pass(its, p, lw, drawn) ==
  IF p > Len(its) THEN [items |-> its, lw |-> lw, painted |-> drawn]
  ELSE LET e == EachItem(its[p], lw)
       IN Pass([its EXCEPT ![p] = e.item], p + 1, e.lw,
               IF e.drawn THEN Append(drawn, p) ELSE drawn)

GeoUnchanged == UNCHANGED <<ctx, props, dpr, variant, layer, data, nconf, handed, quiet, inSuccession,
                            input, timers, svars>>

GeoRender ==
  /\ nb < MaxBatches
  /\ nb' = nb + 1
  /\ LET r == Pass(items, 1, lineWidth, <<>>)
     IN items' = r.items /\ lineWidth' = r.lw /\ painted' = r.painted
  /\ changed' = {}
  /\ query' = <<>> /\ NoFind
  /\ assigned' = assigned
  /\ GeoUnchanged

\* the caller assigns a new value to a field of one item, once, after a pass
GeoAssign(p, f, v) ==
  /\ nb >= 1 /\ ~assigned
  /\ items[p][f] # v
  /\ items' = [items EXCEPT ![p][f] = v]
  /\ changed' = changed \cup {p}
  /\ assigned' = TRUE
  /\ query' = <<>> /\ NoFind
  /\ UNCHANGED <<nb, lineWidth, painted>>
  /\ GeoUnchanged

\* layer.findByPosition({ x, y })
GeoFindByPosition(x, y) ==
  /\ LET r == filter(items, lineWidth, x, y)
     IN /\ found' = [k \in 1..Len(r.at) |-> [at |-> r.at[k], item |-> other(items[r.at[k]])]]
        /\ findStatus' = r.status
        /\ lineWidth' = r.lw
  /\ query' = <<x, y>>
  /\ UNCHANGED <<nb, items, painted, changed, assigned>>
  /\ GeoUnchanged

GeoNext ==
  \/ GeoRender
  \/ \E p \in 1..Len(items) : \E f \in DOMAIN items[p] \ {"renderProps"} :
       \E v \in GeoValues(f) : GeoAssign(p, f, v)
  \/ \E d \in Points : GeoFindByPosition(d[1], d[2])

GeoSpec == GeoInit /\ [][GeoNext]_vars

\* ================================================================ claims
IsPrefix(a, c) == Len(a) <= Len(c) /\ \A p \in 1..Len(a) : a[p] = c[p]

\* the position of item i in list l (0 when absent)
IndexIn(i, l) == IF \E p \in 1..Len(l) : l[p] = i
                 THEN CHOOSE p \in 1..Len(l) : l[p] = i ELSE 0

\* a follows the order of c: its elements occur in c at increasing positions
InOrderOf(a, c) ==
  \A p, q \in 1..Len(a) : p < q => IndexIn(a[p], c) < IndexIn(a[q], c)

Started == 1..nb

\* C1: whenever execute is called while an earlier batch's future is still
\* unsettled, that future is rejected with 'Cancelled' and every idle-callback
\* registration pending at the call is cancelled, before any item of the new
\* batch is processed.
C1_SupersedeRejectsAndCancels ==
  [][nb' = nb + 1 =>
       \A b \in Started :
         settle[b] = "pending" =>
           /\ settle'[b] = "Cancelled"
           /\ regs \cap regs' = {}
           /\ calls'[nb'] = <<>>]_vars

\* C2: when render() is called twice with no timer or idle callback firing
\* in between, the first call's future rejects with 'Cancelled' and the
\* second call's future resolves with as many results as it was given items.
C2_TwiceInSuccession ==
  /\ [][(nb' = nb + 1 /\ nb >= 1 /\ quiet) => settle'[nb] = "Cancelled"]_vars
  /\ [](\A b \in inSuccession :
          settle[b] = "resolved" => Len(value[b]) = Len(input[b]))

\* C3: for the batch that is not superseded, fn is invoked once on each item
\* in input order, and the future resolves with [fn(item_0), ..., fn(item_n-1)].
C3_OrderedResults ==
  \A b \in Started :
    /\ b = nb => IsPrefix(calls[b], input[b])
    /\ settle[b] = "resolved" => value[b] = input[b] /\ calls[b] = input[b]

\* C4: if fn raises on some item, the batch future is rejected with that
\* error, a reason distinct from 'Cancelled'.
C4_ErrorRejectsFuture == \A b \in failed : settle[b] = "Error"

\* C5: at most one idle-callback registration or item-processing loop is
\* live per Scheduler instance.
C5_OneBatchInFlight == Cardinality(regs) + Cardinality(loops) <= 1

\* C6: once a batch has been superseded (its future rejected with
\* 'Cancelled'), none of its items is processed or drawn any more.
C6_StaleBatchStops ==
  [][\A b \in Started :
       settle[b] = "Cancelled" => calls'[b] = calls[b] /\ draws'[b] = draws[b]]_vars

\* C7: fn is not invoked on the next item while the future fn returned for
\* an earlier item of the batch is incomplete, and the items of a pass are
\* drawn in input order.
C7_AwaitsEachItem ==
  /\ \A o \in ops :
       layer = "Marker" => calls[o.cb][Len(calls[o.cb])] = o.item
  /\ \A b \in Started : InOrderOf(draws[b], input[b])

\* C8: nothing render() hands back to its caller rejects with 'Cancelled'.
C8_CancelledSwallowed == \A b \in handed : settle[b] # "Cancelled"

\* C9: execute returns a pending future without having invoked fn or drawn
\* anything; items are processed only when an idle callback runs or one of
\* its awaited loads completes; a batch of zero items is resolved by the
\* first idle callback that runs for it, with the empty sequence.
C9_ExecuteReturnsFirst ==
  /\ [][nb' = nb + 1 =>
          /\ calls' = calls /\ draws' = draws /\ renderProps' = renderProps
          /\ settle'[nb'] = "pending"]_vars
  /\ [][(calls' # calls \/ draws' # draws) =>
          /\ nb' = nb
          /\ (regs # {} /\ Oldest(regs) \notin regs') \/ ops' # ops]_vars
  /\ [][(nb' = nb /\ regs # {} /\ Oldest(regs) \notin regs' /\ input[promise] = <<>>) =>
          settle'[promise] = "resolved"]_vars
  /\ [](\A b \in Started :
          (input[b] = <<>> /\ settle[b] = "resolved") => value[b] = <<>>)

\* a batch of zero items has resolved with the empty sequence, and execute
\* has just returned for a batch with items, none of them processed yet
C9_Witness ==
  /\ \E b \in Started : input[b] = <<>> /\ settle[b] = "resolved" /\ value[b] = <<>>
  /\ \E c \in Started :
       input[c] # <<>> /\ settle[c] = "pending" /\ calls[c] = <<>> /\ quiet

\* C10: findByPosition never fails, and every item it returns carries
\* persisted render geometry.  (The older Grid keeps the geometry it
\* normalised in config() on the item itself, so there every listed item
\* carries geometry.)
C10_FindNeverFails ==
  /\ findStatus # "TypeError"
  /\ (findStatus = "returned" /\ layer # "GridOld") =>
       \A p \in 1..Len(found) : found[p] \in renderProps

\* ------------------------------------------------------ claims: geometry
\* the fields of an item that place and size it
RawGeometry == {"origin", "position", "width", "height", "anchorOrigin", "path"}

\* the step is an assignment by the caller to a raw geometry field
AssignsGeometry ==
  /\ assigned' /\ ~assigned
  /\ \A p \in 1..Len(items) :
       \A f \in DOMAIN items[p] \ RawGeometry : items'[p][f] = items[p][f]

\* C11: after a render pass, a change the caller makes to an item's raw
\* geometry fields, with no new render, changes the result of no
\* findByPosition query.
C11_HitTestOnPersisted ==
  [][AssignsGeometry =>
       \A d \in Points :
         LET before == filter(items, lineWidth, d[1], d[2])
             after == filter(items', lineWidth', d[1], d[2])
         IN before.at = after.at /\ before.status = after.status]_vars

\* a polyline that cannot be drawn: no width, or no two points
Degenerate(it) == it.width = Some(0) \/ Len(it.path) <= 1

\* C13: in a render pass a polyline item with width 0, or with a path of at
\* most one point, produces no draw call and gets no persisted render
\* geometry, and findByPosition does not return it.
C13_DegeneratePolyline ==
  /\ [][(nb' = nb + 1 /\ layer \in {"Line", "LineCtx"}) =>
          \A p \in 1..Len(items) :
            Degenerate(items[p]) =>
              /\ \A k \in 1..Len(painted') : painted'[k] # p
              /\ items'[p].renderProps = items[p].renderProps]_vars
  /\ [](layer \in {"Line", "LineCtx"} /\ findStatus = "returned" =>
          \A k \in 1..Len(found) :
            found[k].at \in changed \/ ~Degenerate(items[found[k].at]))

\* C14: config() called with the canvas, height or width missing is a no-op:
\* it leaves ctx, data, the style cache and any in-flight batch (the
\* scheduler's fields, its registrations and timers, the futures) as they were.
C14_IncompleteConfigNoOp ==
  [][(nconf' = nconf + 1 /\ props' = "incomplete") =>
       UNCHANGED <<ctx, data, svars, timers>>]_vars

\* C15: a render pass over items that were rendered before and not changed
\* since leaves each item's persisted render geometry identical to what the
\* earlier pass stored, although the passes write defaults and resolved
\* anchors back onto the items.
C15_RenderTwiceSameGeometry ==
  [][nb' = nb + 1 =>
       \A p \in 1..Len(items) :
         (p \notin changed /\ items[p].renderProps # None) =>
           items'[p].renderProps = items[p].renderProps]_vars

\* a second pass over an unchanged list has run on a text whose anchor was
\* resolved from a keyword and written back by the first pass
C15_Witness ==
  /\ nb = 2 /\ ~assigned /\ layer = "Text"
  /\ \E p \in 1..Len(items) :
       /\ items[p].anchorOriginDescription = "center"
       /\ items[p].anchorOrigin = Some(<<-Px(10), Px(5)>>)
       /\ items[p].fontSize = Some(Px(10))
       /\ items[p].renderProps # None

\* the item at position p of layer.data is among the items findByPosition returned
Hit(p) == \E k \in 1..Len(found) : found[k].at = p

\* the persisted geometry of a 20x20 marker at (100,100), anchor (0,0), at
\* the given number of quarter turns
Marker100(r) ==
  [anchorOrigin |-> <<0, 0>>, height |-> Px(20), position |-> At100,
   rotation |-> r, width |-> Px(20)]

\* C16: for a rendered marker (rotation a multiple of pi/2) findByPosition
\* reports a hit at the query point exactly when the point is covered by the
\* image drawn with translate(p), rotate(theta), translate(-p + a); a 20x20
\* marker at (100,100) with anchor (0,0) is hit at (105,105) and missed at
\* (200,200) when not rotated, and hit at (95,105) and missed at (105,105)
\* when rotated by pi/2.
C16_MarkerHitIsCovered ==
  (layer = "Marker" /\ findStatus = "returned" /\ query # <<>>) =>
    \A p \in 1..Len(items) :
      items[p].renderProps # None =>
        LET rp == items[p].renderProps[1] IN
        /\ Hit(p) <=> query \in drawImage(rp)
        /\ rp = Marker100(0) /\ query = <<Px(105), Px(105)>> => Hit(p)
        /\ rp = Marker100(0) /\ query = <<Px(200), Px(200)>> => ~Hit(p)
        /\ rp = Marker100(1) /\ query = <<Px(95), Px(105)>> => Hit(p)
        /\ rp = Marker100(1) /\ query = <<Px(105), Px(105)>> => ~Hit(p)

\* the marker turned by pi/2 has been hit at (95,105)
C16_Witness ==
  /\ layer = "Marker" /\ findStatus = "returned" /\ query = <<Px(95), Px(105)>>
  /\ \E p \in 1..Len(items) : items[p].renderProps = Some(Marker100(1)) /\ Hit(p)

\* round(n / 2)
Half(n) == Px((n + 4) \div 8)

\* the anchor a keyword stands for, at width w and font size h
Keyword(d, w, h) ==
  CASE d = "bottom-left" -> <<0, 0>>
    [] d = "bottom-center" -> <<-Half(w), 0>>
    [] d = "bottom-right" -> <<-w, 0>>
    [] d = "middle-left" -> <<0, Half(h)>>
    [] d = "center" -> <<-Half(w), Half(h)>>
    [] d = "middle-right" -> <<-w, Half(h)>>
    [] d = "top-left" -> <<0, h>>
    [] d = "top-center" -> <<-Half(w), h>>
    [] d = "top-right" -> <<-w, h>>

\* the anchor of the text at position p after a render step, given the width
\* w the keyword table is read at
Resolves(p, w) ==
  LET it == items[p]
      rp == items'[p].renderProps[1]
  IN /\ rp.anchorOrigin =
          IF it.anchorOriginDescription # ""
          THEN Keyword(it.anchorOriginDescription, w, rp.fontSize)
          ELSE IF it.anchorOrigin # None THEN it.anchorOrigin[1]
          ELSE <<0, 0>>
     /\ (it.anchorOriginDescription = "center" /\ w = Px(20) /\ rp.fontSize = Px(10))
          => rp.anchorOrigin = <<-Px(10), Px(5)>>

InBox(p) ==
  /\ items[p].renderProps # None
  /\ LET rp == items[p].renderProps[1] IN
     /\ rp.origin[1] <= query[1] /\ query[1] <= rp.origin[1] + rp.width
     /\ rp.origin[2] <= query[2] /\ query[2] <= rp.origin[2] + rp.height

\* C18: Grid.findByPosition({x, y}) returns, in item-list order, exactly the
\* items carrying persisted render geometry whose persisted box contains the
\* point with inclusive bounds, each as a copy without the renderProps field.
C18_GridFindByPosition ==
  (layer = "Grid" /\ findStatus = "returned" /\ query # <<>>) =>
    /\ \A p \in 1..Len(items) : Hit(p) <=> InBox(p)
    /\ \A k, l \in 1..Len(found) : k < l => found[k].at < found[l].at
    /\ \A k \in 1..Len(found) :
         /\ DOMAIN found[k].item = DOMAIN items[found[k].at] \ {"renderProps"}
         /\ \A f \in DOMAIN found[k].item : found[k].item[f] = items[found[k].at][f]

\* two grids were returned, in list order, for a point on the corner of
\* their boxes
C18_Witness ==
  /\ layer = "Grid" /\ findStatus = "returned" /\ query = <<Px(120), Px(120)>>
  /\ Len(found) = 2 /\ found[1].at = 1 /\ found[2].at = 2

\* C19: with a host that keeps firing idle callbacks, some of them with idle
\* time, and an fn that returns, every future returned by execute is
\* eventually settled (resolved after its last item, or rejected on
\* supersession), and the most recently started batch eventually resolves.
C19_EveryFutureSettles ==
  /\ \A b \in Batches : (settle[b] = "pending") ~> (settle[b] # "pending")
  /\ <>[](nb >= 1 => settle[nb] = "resolved")

\* what the oldest pending idle callback leaves behind when k of its
\* timeRemaining() readings are nonzero
IdleRun(k) ==
  LET S0 == [St EXCEPT !.regs = @ \ {Oldest(regs)}]
  IN IF variant = "async" THEN requestIdleCallbackA(S0, k)
                          ELSE requestIdleCallbackB(S0, k)

\* the scheduler still holds unprocessed items
ItemsLeft == IF variant = "async" THEN currentIndex < Len(array) ELSE array # <<>>

\* C20: in each idle callback the remaining idle time is read before every
\* item and fn is invoked only after a nonzero reading (k nonzero readings
\* allow at most k invocations); on a zero reading with items still
\* unprocessed nothing more is processed in that cycle and exactly one new
\* idle callback is registered; the completion check precedes the time check,
\* so a finished or empty batch resolves even when no idle time remains.
C20_IdleCycle ==
  regs # {} =>
    \A k \in 0..MaxItems :
      LET S1 == IdleRun(k)
          rest == regs \ {Oldest(regs)}
      IN /\ Len(S1.calls[callback]) <= Len(calls[callback]) + k
         /\ IsPrefix(calls[callback], S1.calls[callback])
         /\ \A b \in Batches \ {callback} : S1.calls[b] = calls[b]
         /\ Cardinality(S1.regs \ rest) <= 1
         /\ (k = 0 /\ ItemsLeft) =>
              /\ S1.calls = calls /\ S1.draws = draws /\ S1.resultArr = resultArr
              /\ S1.settle = settle /\ S1.loops = loops
              /\ Cardinality(S1.regs \ rest) = 1 /\ rest \subseteq S1.regs
              /\ S1.id \in S1.regs \ regs
         /\ ~ItemsLeft =>
              /\ S1.calls = calls /\ S1.regs = rest /\ S1.id = Undefined
              /\ S1.settle[promise] # "pending"

\* an idle callback has processed the first item of a batch, read no time
\* left, and registered the callback that is now pending
C20_Witness ==
  /\ variant = "async" /\ loops = {} /\ failed = {}
  /\ id \in regs /\ Cardinality(regs) = 1
  /\ currentIndex >= 1 /\ currentIndex < Len(array)
  /\ Len(calls[callback]) = currentIndex

\* C21: after config() has changed the scale factor of a Grid layer, no render
\* paints a cached raster produced under the previous scale factor: every
\* image a step paints was produced at the scale factor current at that step.
C21_NoStaleScaleRaster ==
  [][layer = "Grid" =>
       \A b \in Batches :
         \A k \in (Len(draws[b]) + 1)..Len(draws'[b]) :
           baked'[ItemStyle(draws'[b][k])] = dpr']_vars

\* C22: the style cache of a layer instance starts empty and only grows: no
\* config(), render(), supersession or findByPosition removes a key from it.
C22_CacheOnlyGrows == cache = {} /\ [][cache \subseteq cache']_vars

\* a filled cache has lived through a supersession, two config() calls and a
\* findByPosition call
C22_Witness ==
  /\ cache # {} /\ nconf = 2 /\ findStatus = "returned"
  /\ \E b \in Started : settle[b] = "Cancelled"

\* the box of a rendered text: from its drawn point (position + anchor) the
\* width to the right and the font size upward
InTextBox(p) ==
  LET rp == items[p].renderProps[1]
      left == rp.position[1] + rp.anchorOrigin[1]
      base == rp.position[2] + rp.anchorOrigin[2]
  IN /\ left <= query[1] /\ query[1] <= left + rp.width
     /\ base - rp.fontSize <= query[2] /\ query[2] <= base

\* C23: a rendered Text item with position (px,py), resolved anchor (ax,ay),
\* measured width w and font size h as persisted is returned by
\* findByPosition({x,y}) exactly when px+ax <= x <= px+ax+w and
\* py+ay-h <= y <= py+ay; in particular a query at the point where the text
\* was drawn returns the item.
C23_TextHitBox ==
  (layer \in {"Text", "TextOld"} /\ findStatus = "returned" /\ query # <<>>) =>
    \A p \in 1..Len(items) :
      items[p].renderProps # None => (Hit(p) <=> InTextBox(p))

\* a whole number of pixels
Whole(n) == n % 4 = 0
WholePoint(v) == Whole(v[1]) /\ Whole(v[2])

\* C24: after a render pass every position, size, anchor offset and path
\* vertex in an item's persisted render geometry is an integer, whatever
\* fractional input the item holds (marker rotation excepted), for all kinds.
C24_IntegerGeometry ==
  \A p \in 1..Len(items) :
    items[p].renderProps # None =>
      LET rp == items[p].renderProps[1]
          has(f) == f \in DOMAIN rp
      IN /\ \A f \in {"origin", "position", "anchorOrigin"} : has(f) => WholePoint(rp[f])
         /\ \A f \in {"width", "height", "fontSize"} : has(f) => Whole(rp[f])
         /\ has("path") => \A k \in 1..Len(rp.path) : WholePoint(rp.path[k])

\* C25: Scheduler.id is a number exactly while the scheduled batch has not
\* completed: it is set from the moment execute returns until the batch
\* resolves, and it is undefined whenever no idle callback or processing loop
\* is pending.
C25_IdWhileScheduled ==
  /\ nb >= 1 => (id # Undefined <=> settle[promise] = "pending")
  /\ (regs = {} /\ loops = {}) => id = Undefined

\* the items some render pass has painted on the surface
Drawn == UNION {{draws[b][k] : k \in 1..Len(draws[b])} : b \in Batches}

\* C26: at any time every item findByPosition returns has been drawn on the
\* surface: an item carries no hit-testable geometry without a draw call (a
\* marker whose image is still being decoded is not returned).
C26_ReturnedWasDrawn ==
  (layer \in {"Grid", "Marker"} /\ findStatus = "returned") =>
    \A p \in 1..Len(found) : found[p] \in Drawn

\* the positions the latest pass painted
PaintedNow == {painted[k] : k \in 1..Len(painted)}

\* an item the closure skips: a Text with an empty text, a Line with fewer
\* than two points or a width of 0
Skipped(it) ==
  IF layer = "Text" THEN it.text = "" ELSE Degenerate(it)

\* C27: after the items were reconfigured and a render pass completed,
\* findByPosition returns only items drawn in that pass, and an item that was
\* rendered earlier and became degenerate carries no persisted geometry.
C27_OnlyDrawnInLatestPass ==
  (layer \in {"Text", "Line"} /\ assigned /\ changed = {}) =>
    /\ findStatus = "returned" => \A p \in 1..Len(items) : Hit(p) => p \in PaintedNow
    /\ \A p \in 1..Len(items) : Skipped(items[p]) => items[p].renderProps = None

\* C28: once config() has installed a new item list while a batch is in
\* flight, and render() has not been called again, no further item of the old
\* list is drawn.
C28_ConfigStopsOldList ==
  [][(nb >= 1 /\ nb' = nb /\ data # input[nb]) => draws' = draws]_vars

Quiescent == regs = {} /\ loops = {} /\ timers = 0

\* C30: after fn has raised on an item the scheduler stays usable: the failed
\* batch processes no further item, its future stays pending until the next
\* execute call rejects it with 'Cancelled', and that next batch is processed
\* and resolves with its items.
C30_UsableAfterError ==
  /\ [][\A b \in failed : calls'[b] = calls[b]]_vars
  /\ [](\A b \in failed :
          /\ nb = b => settle[b] = "pending"
          /\ nb > b => settle[b] = "Cancelled"
          /\ (nb = b + 1 /\ b + 1 \notin failed /\ Quiescent) =>
                settle[b + 1] = "resolved" /\ value[b + 1] = input[b + 1])

====
